---- MODULE Spec2Model ----
(***************************************************************************)
(* extract_docx.py: a linear script that opens a .docx document, collects  *)
(* the non-blank paragraph texts and, per table row, the stripped          *)
(* non-blank cell texts joined by " | ", writes the newline-join of the    *)
(* collected lines to a text file and prints it.                           *)
(*                                                                         *)
(* A text (Python str) is a sequence of one-character strings.  The        *)
(* output file is held as the text seen through Python's text-mode I/O     *)
(* (utf-8, universal newlines), or as absent.  Two history variables,     *)
(* origin and file0, record where each line of content came from and what  *)
(* the output file held when the run started.                              *)
(***************************************************************************)
EXTENDS Integers, Sequences, FiniteSets, TLC

\* ------------------------------------------------------------ input bounds

\* A document has at most MaxSize items, an item being a paragraph, a table,
\* a cell, or a row without cells.
MaxSize == 4

\* The texts a paragraph or a cell may carry: empty, whitespace only (a space
\* and a newline), plain, and padded with an inner newline (" b\nc ").
Texts ==
    { << >>,
      <<" ", "\n">>,
      <<"a">>,
      <<" ", "b", "\n", "c", " ">> }

\* The output file: absent, or present with a text.
NoFile == [exists |-> FALSE, text |-> << >>]

FileWith(t) == [exists |-> TRUE, text |-> t]

\* Texts left in the output file before the first run: one longer than
\* anything a bounded document produces (a line has at most 5 characters
\* here), and one of a single character.
StaleText == [k \in 1..(6 * MaxSize) |-> "z"]

StaleChar == <<"z">>

\* The rows of k items: k cells, or no cell at all for k = 1.
Rows(k) == [1..k -> Texts] \cup (IF k = 1 THEN { << >> } ELSE {})

\* Row sequences of w items.
RECURSIVE RowSeqs(_)
RowSeqs(w) ==
    IF w = 0 THEN { << >> }
    ELSE UNION { { <<r>> \o rest : r \in Rows(k),
                                   rest \in RowSeqs(w - k) } : k \in 1..w }

\* Table sequences of w items (a table counts 1, plus its rows' items).
RECURSIVE TableSeqs(_)
TableSeqs(w) ==
    IF w = 0 THEN { << >> }
    ELSE UNION { { <<t>> \o rest : t \in RowSeqs(k - 1),
                                   rest \in TableSeqs(w - k) } : k \in 1..w }

\* The documents of at most MaxSize items: doc.paragraphs is a sequence of
\* paragraph texts, doc.tables a sequence of tables, a table a sequence of
\* rows, a row the sequence of its cells' texts.
Documents ==
    UNION { { [paragraphs |-> ps, tables |-> ts] :
                ps \in [1..pw[1] -> Texts], ts \in TableSeqs(pw[2]) } :
            pw \in { q \in (0..MaxSize) \X (0..MaxSize) :
                        q[1] + q[2] <= MaxSize } }

\* ------------------------------------------------------- Python's str, list

\* The characters str.strip() removes (those of str.isspace() in ASCII).
Whitespace == {" ", "\t", "\n", "\r", "\f"}

RECURSIVE LStrip(_)
LStrip(s) ==
    IF s # << >> /\ Head(s) \in Whitespace THEN LStrip(Tail(s)) ELSE s

RECURSIVE RStrip(_)
RStrip(s) ==
    IF s # << >> /\ s[Len(s)] \in Whitespace
    THEN RStrip(SubSeq(s, 1, Len(s) - 1))
    ELSE s

\* strip(' '): only spaces are removed.
RECURSIVE StripSpaces(_)
StripSpaces(s) ==
    IF s # << >> /\ Head(s) = " " THEN StripSpaces(Tail(s))
    ELSE IF s # << >> /\ s[Len(s)] = " "
         THEN StripSpaces(SubSeq(s, 1, Len(s) - 1))
         ELSE s

\* lstrip(): the trailing whitespace is kept.
StripLeft(s) == LStrip(s)

\* str.strip()
Strip(s) == RStrip(LStrip(s))

\* Every part followed by sep, the last one too.
RECURSIVE JoinTerminated(_, _)
JoinTerminated(sep, parts) ==
    IF parts = << >> THEN << >>
    ELSE parts[1] \o sep \o JoinTerminated(sep, Tail(parts))

\* sep.join(parts)
RECURSIVE Join(_, _)
Join(sep, parts) ==
    IF parts = << >> THEN << >>
    ELSE IF Len(parts) = 1 THEN parts[1]
    ELSE parts[1] \o sep \o Join(sep, Tail(parts))

\* list.insert(0, x)
ListPrepend(l, x) == <<x>> \o l

\* list.append: the list with x added at its end
ListAppend(l, x) == l \o <<x>>

Newline == <<"\n">>

CellSep == <<" ", "|", " ">>

BannerWidth == 50

Banner == [k \in 1..BannerWidth |-> "="]

SuccessMsg == <<
    "E", "x", "t", "r", "a", "c", "t", "e", "d", " ", "s", "u", "c", "c",
    "e", "s", "s", "f", "u", "l", "l", "y", " ", "t", "o", " ", "m", "o",
    "d", "u", "l", "_", "p", "r", "a", "k", "t", "i", "k", "u", "m", ".",
    "t", "x", "t" >>

ContentLabel == <<
    "C", "O", "N", "T", "E", "N", "T", ":" >>

\* ----------------------------------------------------------------- state

VARIABLES
    doc,      \* the input document on disk
    file,     \* the output file on disk
    pc,       \* the statement the script is at
    content,  \* the list `content`
    origin,   \* history: per line of content, where it came from
    para,     \* index of the next paragraph of the first loop
    table,    \* index of the current table of the second loop
    row,      \* index of the next row of the current table
    f,        \* TRUE while the output file handle is open
    stdout,   \* what the print calls have written, one entry per call
    failed,   \* the statement that raised, or "none"
    second,   \* TRUE in a second run of the script
    prev,     \* the output file as the first run left it
    file0     \* history: the output file when this run started

vars ==
    << doc, file, pc, content, origin, para, table, row, f, stdout, failed,
       second, prev, file0 >>

Init ==
    /\ doc \in Documents
    /\ file \in { NoFile, FileWith(StaleChar), FileWith(StaleText) }
    /\ pc = "document"
    /\ content = << >>
    /\ origin = << >>
    /\ para = 1
    /\ table = 1
    /\ row = 1
    /\ f = FALSE
    /\ stdout = << >>
    /\ failed = "none"
    /\ second = FALSE
    /\ prev = NoFile
    /\ file0 = file

\* --------------------------------------------------------------- the script

\* The exception is swallowed and the script goes on to its print calls.
Swallow(s) ==
    /\ pc' = "print"
    /\ failed' = s

\* An uncaught exception at statement s ends the run.
Raise(s) ==
    /\ pc' = "error"
    /\ failed' = s

\* doc = Document(path); content = []
\* Document() raises when the path is missing, unreadable or no document.
OpenDocument ==
    /\ pc = "document"
    /\ \E ok \in BOOLEAN :
         IF ok
         THEN /\ pc' = "paragraphs"
              /\ UNCHANGED failed
         ELSE Raise("document")
    /\ UNCHANGED << doc, file, content, origin, para, table, row, f, stdout,
                    second, prev, file0 >>

\* One pass of `for para in doc.paragraphs`: the text is kept, as it is, when
\* its strip() is not empty.
Paragraph ==
    /\ pc = "paragraphs"
    /\ para <= Len(doc.paragraphs)
    /\ LET text == doc.paragraphs[para]
       IN  IF Strip(text) # << >>
           THEN /\ content' = ListAppend(content, text)
                /\ origin' = ListAppend(origin,
                       [kind |-> "paragraph", at |-> <<para>>,
                        fields |-> <<text>>])
           ELSE UNCHANGED << content, origin >>
    /\ para' = para + 1
    /\ UNCHANGED << doc, file, pc, table, row, f, stdout, failed, second,
                    prev, file0 >>

\* The first loop is exhausted: on to `for table in doc.tables`.
ParagraphsDone ==
    /\ pc = "paragraphs"
    /\ para > Len(doc.paragraphs)
    /\ pc' = "tables"
    /\ UNCHANGED << doc, file, content, origin, para, table, row, f, stdout,
                    failed, second, prev, file0 >>

\* Every cell of the row gives a field, a blank one an empty field.
RowTextAll(cells) == [k \in 1..Len(cells) |-> LStrip(RStrip(cells[k]))]

\* The inner loop over row.cells: row_text is the strip() of each cell text
\* whose strip() is not empty, in column order.
RECURSIVE RowText(_)
RowText(cells) ==
    IF cells = << >> THEN << >>
    ELSE IF Strip(Head(cells)) # << >>
         THEN <<Strip(Head(cells))>> \o RowText(Tail(cells))
         ELSE RowText(Tail(cells))

\* One pass of `for row in table.rows`: a row with a non-empty row_text adds
\* ' | '.join(row_text).
Row ==
    /\ pc = "tables"
    /\ table <= Len(doc.tables)
    /\ row <= Len(doc.tables[table])
    /\ LET row_text == RowText(doc.tables[table][row])
       IN  IF row_text # << >>
           THEN /\ content' = ListAppend(content, Join(CellSep, row_text))
                /\ origin' = ListAppend(origin,
                       [kind |-> "table", at |-> <<table, row>>,
                        fields |-> row_text])
           ELSE UNCHANGED << content, origin >>
    /\ row' = row + 1
    /\ UNCHANGED << doc, file, pc, para, table, f, stdout, failed, second,
                    prev, file0 >>

\* The rows of the current table are exhausted: the next table.
TableDone ==
    /\ pc = "tables"
    /\ table <= Len(doc.tables)
    /\ row > Len(doc.tables[table])
    /\ table' = table + 1
    /\ row' = 1
    /\ UNCHANGED << doc, file, pc, content, origin, para, f, stdout, failed,
                    second, prev, file0 >>

\* The second loop is exhausted: on to the `with open(...)`.
TablesDone ==
    /\ pc = "tables"
    /\ table > Len(doc.tables)
    /\ pc' = "open"
    /\ UNCHANGED << doc, file, content, origin, para, table, row, f, stdout,
                    failed, second, prev, file0 >>

\* Mode 'a': what the file holds is kept.
Kept(old) == FileWith(old.text)

\* Mode 'w': the file is created, or truncated to nothing.
Truncated(old) == FileWith(<< >>)

\* open(path, 'w', encoding='utf-8'); raises when the path cannot be written,
\* and then leaves the file as it was.
OpenOutput ==
    /\ pc = "open"
    /\ \E ok \in BOOLEAN :
         IF ok
         THEN /\ file' = Truncated(file)
              /\ f' = TRUE
              /\ pc' = "write"
              /\ UNCHANGED failed
         ELSE /\ Raise("open")
              /\ UNCHANGED << file, f >>
    /\ UNCHANGED << doc, content, origin, para, table, row, stdout, second,
                    prev, file0 >>

\* f.write('\n'.join(content)), at the end of what the handle has written.
\* A write that raises leaves some prefix of the text in the file, and the
\* with statement releases the handle.
Write ==
    /\ pc = "write"
    /\ LET text == Join(Newline, content)
       IN  \E ok \in BOOLEAN :
             IF ok
             THEN /\ file' = FileWith(file.text \o text)
                  /\ pc' = "close"
                  /\ UNCHANGED << f, failed >>
             ELSE /\ \E k \in 0..Len(text) :
                       file' = FileWith(file.text \o SubSeq(text, 1, k))
                  /\ f' = FALSE
                  /\ Raise("write")
    /\ UNCHANGED << doc, content, origin, para, table, row, stdout, second,
                    prev, file0 >>

\* The end of the with block releases the handle.
Close ==
    /\ pc = "close"
    /\ f' = FALSE
    /\ pc' = "print"
    /\ UNCHANGED << doc, file, content, origin, para, table, row, stdout,
                    failed, second, prev, file0 >>

\* The content printed before the confirmation and the banner.
PrintedContentFirst ==
    << Join(Newline, content),
       SuccessMsg,
       Newline \o Banner,
       ContentLabel,
       Banner \o Newline >>

\* The five print calls, in the order of the script.
Printed ==
    << SuccessMsg,
       Newline \o Banner,
       ContentLabel,
       Banner \o Newline,
       Join(Newline, content) >>

\* The next print call; each writes its argument and a newline.
PrintNext ==
    /\ pc = "print"
    /\ Len(stdout) < Len(Printed)
    /\ stdout' = ListAppend(stdout, Printed[Len(stdout) + 1] \o Newline)
    /\ UNCHANGED << doc, file, pc, content, origin, para, table, row, f,
                    failed, second, prev, file0 >>

\* The script ends after its last statement.
Exit ==
    /\ pc = "print"
    /\ Len(stdout) = Len(Printed)
    /\ pc' = "done"
    /\ UNCHANGED << doc, file, content, origin, para, table, row, f, stdout,
                    failed, second, prev, file0 >>

\* After a run that succeeded the script is run again on the same document:
\* a new process, whose only inheritance is the output file.
RunAgain ==
    /\ pc = "done"
    /\ ~second
    /\ second' = TRUE
    /\ prev' = file
    /\ file0' = file
    /\ pc' = "document"
    /\ content' = << >>
    /\ origin' = << >>
    /\ para' = 1
    /\ table' = 1
    /\ row' = 1
    /\ f' = FALSE
    /\ stdout' = << >>
    /\ failed' = "none"
    /\ UNCHANGED << doc, file >>

Next ==
    \/ OpenDocument
    \/ Paragraph
    \/ ParagraphsDone
    \/ Row
    \/ TableDone
    \/ TablesDone
    \/ OpenOutput
    \/ Write
    \/ Close
    \/ PrintNext
    \/ Exit
    \/ RunAgain

Spec == Init /\ [][Next]_vars

\* ------------------------------------------------ what the claims speak of

\* A text that is empty once its whitespace is trimmed.
Blank(t) == \A k \in 1..Len(t) : t[k] \in Whitespace

\* A text without its leading and trailing whitespace.
Trimmed(t) ==
    LET inked == { k \in 1..Len(t) : t[k] \notin Whitespace }
    IN  IF inked = {} THEN << >>
        ELSE SubSeq(t, CHOOSE k \in inked : \A j \in inked : k <= j,
                       CHOOSE k \in inked : \A j \in inked : k >= j)

HasNewline(t) == \E k \in 1..Len(t) : t[k] = "\n"

\* The parts with sep between each two of them.
RECURSIVE JoinedBy(_, _)
JoinedBy(sep, parts) ==
    IF parts = << >> THEN << >>
    ELSE IF Len(parts) = 1 THEN parts[1]
    ELSE JoinedBy(sep, SubSeq(parts, 1, Len(parts) - 1))
             \o sep \o parts[Len(parts)]

\* The text split at every newline character (str.split('\n')).
RECURSIVE SplitLines(_)
SplitLines(t) ==
    IF ~HasNewline(t) THEN <<t>>
    ELSE LET k == CHOOSE i \in 1..Len(t) :
                      t[i] = "\n" /\ \A j \in 1..(i - 1) : t[j] # "\n"
         IN  <<SubSeq(t, 1, k - 1)>> \o SplitLines(SubSeq(t, k + 1, Len(t)))

\* The lines of content that came from a paragraph, or from a table row.
RECURSIVE LinesFrom(_, _, _)
LinesFrom(kind, lines, from) ==
    IF lines = << >> THEN << >>
    ELSE (IF Head(from).kind = kind THEN <<Head(lines)>> ELSE << >>)
             \o LinesFrom(kind, Tail(lines), Tail(from))

NonBlank(texts) == SelectSeq(texts, LAMBDA t : ~Blank(t))

RECURSIVE Flatten(_)
Flatten(seqs) ==
    IF seqs = << >> THEN << >> ELSE Head(seqs) \o Flatten(Tail(seqs))

\* The rows the second loop has been through, in table and row order.
RowsRead ==
    Flatten(SubSeq(doc.tables, 1, table - 1))
        \o (IF table <= Len(doc.tables)
            THEN SubSeq(doc.tables[table], 1, row - 1)
            ELSE << >>)

\* The line a row with a non-blank cell gives.
RowLine(cells) ==
    LET kept == NonBlank(cells)
    IN  JoinedBy(CellSep, [k \in 1..Len(kept) |-> Trimmed(kept[k])])

BothLoopsDone ==
    /\ para = Len(doc.paragraphs) + 1
    /\ table = Len(doc.tables) + 1

AllBlank ==
    /\ \A k \in 1..Len(doc.paragraphs) : Blank(doc.paragraphs[k])
    /\ \A t \in 1..Len(doc.tables) : \A r \in 1..Len(doc.tables[t]) :
           \A c \in 1..Len(doc.tables[t][r]) : Blank(doc.tables[t][r][c])

\* ------------------------------------------------------------------ claims

\* C1: the paragraph lines of content are, at every point of the run, the
\* texts of the paragraphs read so far that are not blank after trimming, one
\* line each, in document order; a blank paragraph gives no line.  Once the
\* first loop is over, all paragraphs have been read.
C1_ParagraphLines ==
    /\ LinesFrom("paragraph", content, origin)
           = NonBlank(SubSeq(doc.paragraphs, 1, para - 1))
    /\ pc \in {"tables", "open", "write", "close", "print", "done"}
           => para = Len(doc.paragraphs) + 1

C1_Witness ==
    /\ pc = "done"
    /\ Len(doc.paragraphs) = 3
    /\ ~Blank(doc.paragraphs[1])
    /\ Blank(doc.paragraphs[2])
    /\ ~Blank(doc.paragraphs[3])
    /\ doc.paragraphs[1] # doc.paragraphs[3]
    /\ content = <<doc.paragraphs[1], doc.paragraphs[3]>>

\* C2: the table lines of content are, at every point of the run, one line
\* per row read so far that has a cell which is not blank after trimming, in
\* table order and row order; the line is the trimmed texts of the row's
\* non-blank cells, in column order, joined by " | ".  A row of blank cells
\* gives no line, and a blank cell gives no field.
C2_TableLines ==
    /\ LET rows == SelectSeq(RowsRead,
                       LAMBDA cells : \E k \in 1..Len(cells) : ~Blank(cells[k]))
       IN  LinesFrom("table", content, origin)
               = [k \in 1..Len(rows) |-> RowLine(rows[k])]
    /\ pc \in {"open", "write", "close", "print", "done"}
           => table = Len(doc.tables) + 1

C2_Witness ==
    /\ pc = "done"
    /\ doc.tables = << << << << >>, <<"a">>, << >> >> >> >>
    /\ content = << <<"a">> >>

\* C3: in content every paragraph line precedes every table line, at every
\* point of the run.
C3_ParagraphsFirst ==
    \A j, k \in 1..Len(origin) :
        origin[j].kind = "paragraph" /\ origin[k].kind = "table" => j < k

C3_Witness ==
    /\ pc = "done"
    /\ Len(content) >= 3
    /\ origin[1].kind = "paragraph"
    /\ origin[Len(origin)].kind = "table"

\* C4 (as claimed): after a run, splitting the file at every newline gives
\* back the content sequence.
C4_RoundTrip ==
    pc = "done" => SplitLines(file.text) = content

\* C4 (amended): after a run, splitting the file at every newline gives back
\* the content sequence exactly when content is not empty and none of its
\* lines holds a newline.
C4_RoundTripWhenLinesAreLines ==
    pc = "done" =>
        (SplitLines(file.text) = content
            <=> /\ content # << >>
                /\ \A k \in 1..Len(content) : ~HasNewline(content[k]))

C4_Witness ==
    /\ pc = "done"
    /\ Len(content) >= 2
    /\ \A k \in 1..Len(content) : ~HasNewline(content[k])
    /\ SplitLines(file.text) = content

\* C5: a second run on the same document, after a first one that succeeded,
\* leaves the output file holding exactly what the first one left, whatever
\* the file held before the first run.
C5_SameOutputTwice ==
    pc = "done" /\ second => file = prev

C5_Witness ==
    /\ pc = "done"
    /\ second
    /\ Len(content) >= 2
    /\ prev.exists
    /\ file = prev

\* C6: from the moment the run has written the file, the file holds exactly
\* the newline-join of the run's content, whatever it held before the run.
C6_FullOverwrite ==
    pc \in {"close", "print", "done"}
        => file = FileWith(JoinedBy(Newline, content))

C6_Witness ==
    /\ pc = "done"
    /\ file0 = FileWith(StaleText)
    /\ content # << >>
    /\ Len(file.text) < Len(file0.text)

\* C7: a run on a document whose paragraphs and cells are all blank (or that
\* has none) ends with the output file present and empty.
C7_BlankDocumentEmptyFile ==
    pc = "done" /\ AllBlank => content = << >> /\ file = FileWith(<< >>)

C7_Witness ==
    /\ pc = "done"
    /\ AllBlank
    /\ \E k \in 1..Len(doc.paragraphs) : doc.paragraphs[k] # << >>
    /\ \E t \in 1..Len(doc.tables) : \E r \in 1..Len(doc.tables[t]) :
           Len(doc.tables[t][r]) >= 1
    /\ file0 = FileWith(StaleText)
    /\ file = FileWith(<< >>)

\* C8: a statement that raises ends the run in the error state with nothing
\* printed; when it is the opening of the document, the output file is as it
\* was when the run started, and no handle is open.
C8_FailureAborts ==
    /\ failed # "none" => pc = "error" /\ stdout = << >> /\ ~f
    /\ pc = "error" => failed \in {"document", "open", "write"}
    /\ failed = "document" => file = file0 /\ content = << >>

C8_Witness ==
    /\ pc = "error"
    /\ failed = "write"
    /\ content # << >>
    /\ file # file0
    /\ stdout = << >>

\* C9: a paragraph line is the paragraph's text as it stands in the document,
\* whitespace included; a table line is the join of its fields, none of which
\* is empty or starts or ends with whitespace.
C9_UntrimmedParagraphsTrimmedCells ==
    \A k \in 1..Len(content) :
        /\ origin[k].kind = "paragraph"
               => content[k] = doc.paragraphs[origin[k].at[1]]
        /\ origin[k].kind = "table"
               => /\ content[k] = JoinedBy(CellSep, origin[k].fields)
                  /\ \A i \in 1..Len(origin[k].fields) :
                         LET fld == origin[k].fields[i]
                         IN  /\ fld # << >>
                             /\ fld[1] \notin Whitespace
                             /\ fld[Len(fld)] \notin Whitespace
                             /\ \E c \in 1..Len(doc.tables[origin[k].at[1]]
                                                          [origin[k].at[2]]) :
                                    fld = Trimmed(doc.tables[origin[k].at[1]]
                                                            [origin[k].at[2]][c])

C9_Witness ==
    /\ pc = "done"
    /\ \E k \in 1..Len(content) :
           /\ origin[k].kind = "paragraph"
           /\ content[k][1] \in Whitespace
           /\ content[k][Len(content[k])] \in Whitespace
    /\ \E k \in 1..Len(content) :
           /\ origin[k].kind = "table"
           /\ \E c \in 1..Len(doc.tables[origin[k].at[1]][origin[k].at[2]]) :
                  LET cell == doc.tables[origin[k].at[1]][origin[k].at[2]][c]
                  IN  ~Blank(cell) /\ cell[1] \in Whitespace

\* C10: the output file handle is open only after both loops are over; once
\* anything is printed the handle is released and the file holds the joined
\* content; the print calls come in the order confirmation, banner, label,
\* banner, content, and the content printed is the text of the file.
C10_StepOrder ==
    /\ f => pc \in {"write", "close"} /\ BothLoopsDone
    /\ pc \in {"document", "paragraphs", "tables", "open"} => file = file0
    /\ stdout # << >>
           => /\ ~f
              /\ pc \in {"print", "done"}
              /\ file = FileWith(JoinedBy(Newline, content))
    /\ Len(stdout) <= 5
    /\ \A k \in 1..Len(stdout) :
           stdout[k] = << SuccessMsg \o Newline,
                          Newline \o Banner \o Newline,
                          ContentLabel \o Newline,
                          Banner \o Newline \o Newline,
                          file.text \o Newline >>[k]
    /\ pc = "done" => Len(stdout) = 5

C10_Witness ==
    /\ pc = "done"
    /\ Len(stdout) = 5
    /\ Len(content) >= 2
    /\ stdout[5] = file.text \o Newline

====
